---- MODULE Spec2Model ----
(***************************************************************************)
(* A model of gradio_i18n/i18n.py: the marker type I18nString, the         *)
(* discovery generators (iter_i18n_choices, iter_i18n_fields,              *)
(* iter_i18n_components), the gap detector has_new_i18n_fields, the table  *)
(* builder dump_blocks, the handlers on_load and on_lang_change that       *)
(* translate_blocks registers, and the exit of the Translate scope with    *)
(* its file reading and writing.                                           *)
(*                                                                         *)
(* A text value is a record [t, s, m]: t = "str" with text s, and m says   *)
(* whether the object is an I18nString; t = "none" is None.  Python's ==   *)
(* and hash of a str ignore the subclass, so dictionary lookups use .s.    *)
(***************************************************************************)
EXTENDS Integers, Sequences, FiniteSets, TLC

VARIABLES
    block,             \* Context.block: the component tree of the scope
    lang,              \* id of the language selector component
    translation,       \* the `translation` argument of Translate
    placeholder_langs, \* the `placeholder_langs` argument of Translate
    file,              \* the file at the path `translation`, when it is a path
    exits,             \* scope exits so far (one per launch of the program)
    exitResult,        \* how the last scope exit ended
    wrote,             \* whether the last scope exit opened the file for writing
    handlers,          \* block.load / lang.change have been registered
    components,        \* the list translate_blocks closes over (the outputs)
    translation_dict,  \* the table translate_blocks closes over
    changedTo,         \* argument of the last on_lang_change call
    pushed,            \* the updates the last on_lang_change call pushed
    args,              \* arguments of a direct has_new_i18n_fields / dump_blocks call
    result,            \* what that call returned
    request,           \* the request given to on_load
    loaded             \* what on_load returned or raised

vars == <<block, lang, translation, placeholder_langs, file, exits, exitResult,
          wrote, handlers, components, translation_dict, changedTo, pushed,
          args, result, request, loaded>>

---------------------------------------------------------------------------
(* Bounds of the model *)

MaxChildren == 2
MaxChoices == 2
MaxHeaderLen == 3
MaxExits == 2

---------------------------------------------------------------------------
(* Values *)

None == [t |-> "none", s |-> "", m |-> FALSE]

\* A plain str
Str(s) == [t |-> "str", s |-> s, m |-> FALSE]

\* class I18nString(str)
I18nString(s) == [t |-> "str", s |-> s, m |-> TRUE]

\* gettext(key): wrap a text as an I18nString
gettext(key) == I18nString(key)

\* isinstance(v, I18nString)
IsI18nString(v) == v.t = "str" /\ v.m

\* "" + value: str.__add__ returns a plain str with the same text
PlainOf(v) == Str(v.s)

\* An entry of `choices`: a plain value (k, no value half) or a tuple (k, v)
Entry(k) == [pair |-> FALSE, k |-> k, v |-> None]
Pair(k, v) == [pair |-> TRUE, k |-> k, v |-> v]

\* The elements of a sequence
Range(s) == {s[i] : i \in 1..Len(s)}

---------------------------------------------------------------------------
(* Components.  A node carries the attributes inspect.getmembers can meet  *)
(* that may hold text: label, value and, when hasChoices, choices.  A      *)
(* BlockContext (ctx) owns an ordered list of children.                    *)

Leaf(id, label, value, hasChoices, choices) ==
    [id |-> id, ctx |-> FALSE, label |-> label, value |-> value,
     hasChoices |-> hasChoices, choices |-> choices, children |-> <<>>]

Container(id, label, children) ==
    [id |-> id, ctx |-> TRUE, label |-> label, value |-> None,
     hasChoices |-> FALSE, choices |-> <<>>, children |-> children]

\* getattr(component, name) for the text attributes
Attr(c, name) == IF name = "label" THEN c.label ELSE c.value

\* The attribute names in the order inspect.getmembers returns them (sorted)
MemberNames == <<"choices", "label", "value">>

---------------------------------------------------------------------------
(* Discovery *)

\* iter_i18n_choices: the (1-based) positions it yields, ascending.  With a
\* tuple first every entry is unpacked as a tuple; otherwise only entries
\* that are themselves I18nString are reported.
iter_i18n_choices(choices) ==
    LET keep(i) == IF choices[1].pair
                   THEN IsI18nString(choices[i].k)
                   ELSE ~choices[i].pair /\ IsI18nString(choices[i].k)
        f[n \in 0..Len(choices)] ==
            IF n = 0 THEN <<>>
            ELSE IF keep(n) THEN Append(f[n - 1], n) ELSE f[n - 1]
    IN  IF Len(choices) = 0 THEN <<>> ELSE f[Len(choices)]

\* any(iter_i18n_choices(value)): any() tests the truth of what the
\* generator yields, and it yields Python indices, of which 0 is false.
\* Position p here is Python index p - 1.
AnyIndex(idxs) == \E j \in 1..Len(idxs) : idxs[j] - 1 # 0

\* iter_i18n_fields: the names it yields, in getmembers order
iter_i18n_fields(component) ==
    LET yields(name) ==
            IF name = "value" /\ component.hasChoices THEN FALSE
            ELSE IF name = "choices"
                 THEN component.hasChoices
                      /\ AnyIndex(iter_i18n_choices(component.choices))
                 ELSE IsI18nString(Attr(component, name))
    IN  SelectSeq(MemberNames, yields)

\* iter_i18n_components: the descendants first, then the block itself
RECURSIVE iter_i18n_components(_)
iter_i18n_components(b) ==
    LET below[i \in 0..Len(b.children)] ==
            IF i = 0 THEN <<>>
            ELSE below[i - 1] \o iter_i18n_components(b.children[i])
    IN  (IF b.ctx THEN below[Len(b.children)] ELSE <<>>)
        \o (IF iter_i18n_fields(b) # <<>> THEN <<b>> ELSE <<>>)

---------------------------------------------------------------------------
(* Tables: a dict from language to a dict from text to text *)

\* value in table.get(lang, {})
HasKey(table, l, v) == l \in DOMAIN table /\ v.s \in DOMAIN table[l]

\* translate that never finds the key
translate_miss(table, l, key) == key

\* translate(lang, key) of translate_blocks: translation.get(lang, {}).get(key, key)
translate(table, l, key) ==
    IF HasKey(table, l, key) THEN Str(table[l][key.s]) ELSE key

\* The text a reported choices position stands for: the display half of a
\* tuple, or the entry itself
ChoiceValue(choices, idx) == choices[idx].k

\* has_new_i18n_fields(block, langs, existing_translation)
has_new_i18n_fields(b, langs, existing_translation) ==
    LET comps == iter_i18n_components(b)
    IN  \E li \in 1..Len(langs) : \E ci \in 1..Len(comps) :
          LET component == comps[ci]
              fields == iter_i18n_fields(component)
          IN  \E fi \in 1..Len(fields) :
                IF fields[fi] = "choices"
                THEN LET idxs == iter_i18n_choices(component.choices)
                     IN  \E j \in 1..Len(idxs) :
                           ~HasKey(existing_translation, langs[li],
                                   ChoiceValue(component.choices, idxs[j]))
                ELSE ~HasKey(existing_translation, langs[li],
                             Attr(component, fields[fi]))

\* The texts dump_blocks makes keys of: "" + value for every discovered value
DumpKeys(b) ==
    LET comps == iter_i18n_components(b)
    IN  UNION { UNION {
          IF f = "choices"
          THEN {PlainOf(ChoiceValue(c.choices, idx)).s :
                  idx \in Range(iter_i18n_choices(c.choices))}
          ELSE {PlainOf(Attr(c, f)).s}
          : f \in Range(iter_i18n_fields(c)) } : c \in Range(comps) }

\* dump_blocks that fills only the first language given
dump_blocks_first(b, langs, include_translations) ==
    [l \in Range(langs) |->
       [k \in (IF l = langs[1] THEN DumpKeys(b) ELSE {}) |->
          IF l \in DOMAIN include_translations
             /\ k \in DOMAIN include_translations[l]
          THEN include_translations[l][k] ELSE k]]

\* dump_blocks(block, langs, include_translations)
dump_blocks(b, langs, include_translations) ==
    [l \in Range(langs) |->
       [k \in DumpKeys(b) |->
          IF l \in DOMAIN include_translations
             /\ k \in DOMAIN include_translations[l]
          THEN include_translations[l][k] ELSE k]]

---------------------------------------------------------------------------
(* The handlers translate_blocks defines *)

\* Strings are sequences of one-character strings where on_load takes them
\* apart.  str.lower() on the characters a header is drawn from:
LowerChar(c) == IF c = "E" THEN "e" ELSE IF c = "N" THEN "n" ELSE c

Lower(s) == [i \in 1..Len(s) |-> LowerChar(s[i])]

\* s.split(sep)[0]: the text before the first sep, all of s when there is none
SplitFirst(s, sep) ==
    LET at == {i \in 1..Len(s) : s[i] = sep}
    IN  IF at = {} THEN s
        ELSE SubSeq(s, 1, (CHOOSE i \in at : \A j \in at : i <= j) - 1)

\* on_load(request).  request.headers["Accept-Language"] raises KeyError
\* when the request carries no such header.
on_load(req) ==
    IF ~req.present THEN [status |-> "KeyError", value |-> <<>>]
    ELSE LET l == Lower(SplitFirst(SplitFirst(req.header, ","), "-"))
         IN  IF l = <<>> THEN [status |-> "returned", value |-> <<"e", "n">>]
             ELSE [status |-> "returned", value |-> l]

\* NewChoices that looks the value half of a tuple up as well
NewChoices_both(table, l, choices) ==
    LET idxs == Range(iter_i18n_choices(choices))
    IN  [i \in 1..Len(choices) |->
           IF i \notin idxs THEN choices[i]
           ELSE IF choices[i].pair
                THEN Pair(translate(table, l, choices[i].k),
                          translate(table, l, choices[i].v))
                ELSE Pair(translate(table, l, choices[i].k), choices[i].k)]

\* choices.copy() with the reported positions rewritten: a tuple keeps its
\* value half, a plain entry v becomes the tuple (translate(lang, v), v)
NewChoices(table, l, choices) ==
    LET idxs == Range(iter_i18n_choices(choices))
    IN  [i \in 1..Len(choices) |->
           IF i \notin idxs THEN choices[i]
           ELSE IF choices[i].pair
                THEN Pair(translate(table, l, choices[i].k), choices[i].v)
                ELSE Pair(translate(table, l, choices[i].k), choices[i].k)]

\* Modified that reads `value` where it should read the field it sets
Modified_value(table, l, component) ==
    LET fields == Range(iter_i18n_fields(component))
    IN  [keys |-> fields,
         label |-> IF "label" \in fields
                   THEN translate(table, l, component.value) ELSE None,
         value |-> IF "value" \in fields
                   THEN translate(table, l, component.value) ELSE None,
         choices |-> IF "choices" \in fields
                     THEN NewChoices(table, l, component.choices) ELSE <<>>]

\* gr.update(**modified) for one component: keys are the fields set
Modified(table, l, component) ==
    LET fields == Range(iter_i18n_fields(component))
    IN  [keys |-> fields,
         label |-> IF "label" \in fields
                   THEN translate(table, l, component.label) ELSE None,
         value |-> IF "value" \in fields
                   THEN translate(table, l, component.value) ELSE None,
         choices |-> IF "choices" \in fields
                     THEN NewChoices(table, l, component.choices) ELSE <<>>]

\* `component == lang` inside on_lang_change: its parameter `lang` shadows
\* the selector component, so a Block object is compared with the str the
\* selector holds, and the two are never equal.
ComponentEqualsLang(component, l) == FALSE

\* on_lang_change(lang), and the binding of what it returns to the outputs:
\* a single update is returned bare and is bound to the single output.
on_lang_change(comps, table, l) ==
    IF \E i \in 1..Len(comps) :
         ComponentEqualsLang(comps[i], l)
         /\ "value" \in Range(iter_i18n_fields(comps[i]))
    THEN [status |-> "ValueError", updates |-> <<>>]
    ELSE LET outputs == [i \in 1..Len(comps) |-> Modified(table, l, comps[i])]
             ret == IF Len(outputs) = 1
                    THEN [one |-> TRUE, u |-> <<outputs[1]>>]
                    ELSE [one |-> FALSE, u |-> outputs]
         IN  [status |-> "returned", updates |-> ret.u]

\* What translate_blocks leaves behind: the closure of the two handlers and
\* their registration.  The root handed in by Translate is a gr.Blocks.
translate_blocks(b, table, selector) ==
    [handlers |-> TRUE, components |-> iter_i18n_components(b),
     translation_dict |-> table]

---------------------------------------------------------------------------
(* Inputs *)

Keys == {"Hello", "Welcome"}
Languages == {"en", "fr", "de"}
TableLanguages == {"en", "fr"}
Extensions == {"json", "yaml", "txt"}
HeaderChars == {"e", "N", "-", ",", ";"}

EmptyTable == [l \in {} |-> [k \in {} |-> ""]]

\* One language's dict
EnMaps == {[k \in {} |-> ""], [k \in Keys |-> k]}
FrMaps == {[k \in {} |-> ""], [k \in {"Hello"} |-> "Bonjour"],
           [k \in Keys |-> IF k = "Hello" THEN "Bonjour" ELSE "Bienvenue"]}

Tables == UNION {{[l \in D |-> IF l = "en" THEN e ELSE f] :
                    e \in EnMaps, f \in FrMaps} : D \in SUBSET TableLanguages}

\* Sequences over S of length at most n
RECURSIVE SeqsUpTo(_, _)
SeqsUpTo(S, n) ==
    IF n = 0 THEN {<<>>}
    ELSE LET shorter == SeqsUpTo(S, n - 1)
         IN  shorter \cup {Append(q, x) : q \in shorter, x \in S}

\* Lists of languages, none given twice
LangLists == {ls \in SeqsUpTo(TableLanguages, Cardinality(TableLanguages)) :
                \A i, j \in 1..Len(ls) : ls[i] = ls[j] => i = j}

Markers == {gettext("Hello"), gettext("Welcome")}

PlainEntries == {Entry(gettext("Hello")), Entry(Str("Hello"))}
PairEntries == {Pair(gettext("Welcome"), Str("Hello")),
                Pair(Str("Hello"), Str("x"))}

\* Lists iter_i18n_choices can walk: a list whose first entry is a tuple
\* holds tuples only (it unpacks every entry as one)
ChoiceLists ==
    {c \in SeqsUpTo(PlainEntries \cup PairEntries, MaxChoices) :
       Len(c) > 0 /\ c[1].pair => \A i \in 1..Len(c) : c[i].pair}

\* Components without choices: a label that is marked, plain or unset, or
\* a marked value
TextLeaves(id) ==
    {Leaf(id, l, None, FALSE, <<>>) : l \in Markers \cup {Str("Hello"), None}}
    \cup {Leaf(id, None, gettext("Hello"), FALSE, <<>>)}

\* Components with choices; their value is marked
ChoiceLeaves(id) ==
    {Leaf(id, None, gettext("Hello"), TRUE, c) : c \in ChoiceLists}

Nodes(id) ==
    TextLeaves(id) \cup ChoiceLeaves(id)
    \cup {Container(id, l, <<x>>) :
            l \in {None, gettext("Welcome")}, x \in TextLeaves(10 * id + 1)}

\* Further children of the root: text components with a marked label
Siblings(id) == {Leaf(id, l, None, FALSE, <<>>) : l \in Markers}

\* The selector: the gr.State() Translate creates, or a Textbox given by
\* the caller whose value is marked
Selectors == {Leaf(1, None, None, FALSE, <<>>),
              Leaf(1, None, gettext("en"), FALSE, <<>>)}

\* The children of the root after the selector: any node, then siblings
RECURSIVE ChildLists(_)
ChildLists(n) ==
    IF n = 0 THEN {<<>>}
    ELSE IF n = 1 THEN {<<x>> : x \in Nodes(2)}
    ELSE {Append(q, x) : q \in ChildLists(n - 1), x \in Siblings(n + 1)}

Trees == {Container(0, None, <<sel>> \o kids) :
            sel \in Selectors,
            kids \in UNION {ChildLists(n) : n \in 0..MaxChildren}}

Files == {[exists |-> FALSE, empty |-> FALSE, data |-> EmptyTable]}
         \cup {[exists |-> TRUE, empty |-> FALSE, data |-> t] : t \in Tables}

Sources == {[kind |-> "path", ext |-> e, table |-> EmptyTable] : e \in Extensions}
           \cup {[kind |-> "other", ext |-> "", table |-> EmptyTable]}

Requests == {[present |-> FALSE, header |-> <<>>]}
            \cup {[present |-> TRUE, header |-> h] :
                    h \in SeqsUpTo(HeaderChars, MaxHeaderLen)}

---------------------------------------------------------------------------
(* The state machine *)

NoFile == [exists |-> FALSE, empty |-> FALSE, data |-> EmptyTable]
NoArgs == [langs |-> <<>>, existing |-> EmptyTable]
NoResult == [op |-> "none", has_new |-> FALSE, dump |-> EmptyTable]
NoRequest == [present |-> FALSE, header |-> <<>>]
NotLoaded == [status |-> "none", value |-> <<>>]
NotPushed == [status |-> "none", updates |-> <<>>]

\* Before the scope exit nothing is registered and nothing has run
Unstarted ==
    /\ exits = 0
    /\ exitResult = "none"
    /\ wrote = FALSE
    /\ handlers = FALSE
    /\ components = <<>>
    /\ translation_dict = EmptyTable
    /\ changedTo = ""
    /\ pushed = NotPushed
    /\ result = NoResult
    /\ request = NoRequest
    /\ loaded = NotLoaded

\* A scope over a tree with a literal dict as its translation
Init ==
    /\ block \in Trees
    /\ lang = 1
    /\ translation \in {[kind |-> "dict", ext |-> "", table |-> t] : t \in Tables}
    /\ placeholder_langs = <<>>
    /\ file = NoFile
    /\ args = NoArgs
    /\ Unstarted

\* A scope over a tree with a file path (or something that is neither a
\* dict nor a str) as its translation
InitFile ==
    /\ block \in Trees
    /\ lang = 1
    /\ translation \in Sources
    /\ placeholder_langs \in LangLists
    /\ file \in (IF translation.kind = "path" THEN Files ELSE {NoFile})
    /\ args = NoArgs
    /\ Unstarted

\* Arguments for a direct call of has_new_i18n_fields or dump_blocks
InitTable ==
    /\ block \in Trees
    /\ lang = 1
    /\ translation = [kind |-> "dict", ext |-> "", table |-> EmptyTable]
    /\ placeholder_langs = <<>>
    /\ file = NoFile
    /\ args \in {[langs |-> ls, existing |-> t] : ls \in LangLists, t \in Tables}
    /\ Unstarted

\* A page with nothing but the load handler
InitLoad ==
    /\ block = Container(0, None, <<Leaf(1, None, None, FALSE, <<>>)>>)
    /\ lang = 1
    /\ translation = [kind |-> "dict", ext |-> "", table |-> EmptyTable]
    /\ placeholder_langs = <<>>
    /\ file = NoFile
    /\ args = NoArgs
    /\ Unstarted

\* The body of Translate after the yield: load the table, wire the
\* handlers, and rewrite the file when a gap is found.  Each exit is one
\* launch of the program, so what an earlier launch pushed is gone.
TranslateExit ==
    /\ exits < MaxExits
    /\ exits' = exits + 1
    /\ changedTo' = ""
    /\ pushed' = NotPushed
    /\ UNCHANGED <<block, lang, translation, placeholder_langs, args, result,
                   request, loaded>>
    /\ LET isDict == translation.kind = "dict"
           isStr == translation.kind = "path"
           known == translation.ext \in {"json", "yaml"}
           raises == (~isDict /\ ~isStr) \/ (isStr /\ file.exists /\ ~known)
           table == IF isDict THEN translation.table
                    ELSE IF file.exists THEN file.data ELSE EmptyTable
           wired == translate_blocks(block, table, lang)
           gap == /\ placeholder_langs # <<>>
                  /\ isStr
                  /\ has_new_i18n_fields(block, placeholder_langs, table)
           merged == dump_blocks(block, placeholder_langs, table)
       IN  IF raises
           THEN /\ exitResult' = "ValueError"
                /\ handlers' = FALSE
                /\ components' = <<>>
                /\ translation_dict' = EmptyTable
                /\ wrote' = FALSE
                /\ file' = file
           ELSE /\ exitResult' = "ok"
                /\ handlers' = wired.handlers
                /\ components' = wired.components
                /\ translation_dict' = wired.translation_dict
                /\ wrote' = gap
                /\ file' = IF ~gap THEN file
                           ELSE IF known
                           THEN [exists |-> TRUE, empty |-> FALSE, data |-> merged]
                           ELSE [exists |-> TRUE, empty |-> TRUE, data |-> EmptyTable]

\* The selector's value becomes l and its change event runs on_lang_change
LangChange(l) ==
    /\ handlers
    /\ changedTo' = l
    /\ pushed' = on_lang_change(components, translation_dict, l)
    /\ UNCHANGED <<block, lang, translation, placeholder_langs, file, exits,
                   exitResult, wrote, handlers, components, translation_dict,
                   args, result, request, loaded>>

\* The page loads with request req and the load event runs on_load
Load(req) ==
    /\ request' = req
    /\ loaded' = on_load(req)
    /\ UNCHANGED <<block, lang, translation, placeholder_langs, file, exits,
                   exitResult, wrote, handlers, components, translation_dict,
                   changedTo, pushed, args, result>>

\* A direct call of has_new_i18n_fields
CallHasNew ==
    /\ result' = [op |-> "has_new",
                  has_new |-> has_new_i18n_fields(block, args.langs, args.existing),
                  dump |-> EmptyTable]
    /\ UNCHANGED <<block, lang, translation, placeholder_langs, file, exits,
                   exitResult, wrote, handlers, components, translation_dict,
                   changedTo, pushed, args, request, loaded>>

\* A direct call of dump_blocks
CallDump ==
    /\ result' = [op |-> "dump", has_new |-> FALSE,
                  dump |-> dump_blocks(block, args.langs, args.existing)]
    /\ UNCHANGED <<block, lang, translation, placeholder_langs, file, exits,
                   exitResult, wrote, handlers, components, translation_dict,
                   changedTo, pushed, args, request, loaded>>

Next == TranslateExit \/ \E l \in Languages : LangChange(l)
NextFile == TranslateExit
NextTable == CallHasNew \/ CallDump
NextLoad == \E req \in Requests : Load(req)

Spec == Init /\ [][Next]_vars
SpecFile == InitFile /\ [][NextFile]_vars
SpecTable == InitTable /\ [][NextTable]_vars
SpecLoad == InitLoad /\ [][NextLoad]_vars

---------------------------------------------------------------------------
(* What the specification calls discovered and translatable, stated on the *)
(* tree itself (sections 4.3 and the glossary): every node of the tree,    *)
(* every attribute holding a Marker Value (the `value` of a component with *)
(* choices excepted), and every choices position whose entry, or whose     *)
(* display half, is a Marker Value.                                        *)

RECURSIVE AllNodes(_)
AllNodes(b) == {b} \cup UNION {AllNodes(b.children[i]) : i \in 1..Len(b.children)}

TranslatableAttrs(n) ==
    {a \in {"label", "value"} :
       ~(a = "value" /\ n.hasChoices) /\ IsI18nString(Attr(n, a))}

MarkedPositions(choices) ==
    {p \in 1..Len(choices) :
       IF choices[1].pair THEN IsI18nString(choices[p].k)
       ELSE ~choices[p].pair /\ IsI18nString(choices[p].k)}

TranslatableValues(b) ==
    UNION {{Attr(n, a).s : a \in TranslatableAttrs(n)}
           \cup (IF n.hasChoices
                 THEN {n.choices[p].k.s : p \in MarkedPositions(n.choices)}
                 ELSE {}) : n \in AllNodes(b)}

\* The table lookup with identity fallback, on texts
Lookup(table, l, text) ==
    IF l \in DOMAIN table /\ text \in DOMAIN table[l] THEN table[l][text] ELSE text

\* The update the last change pushed to node n, if it pushed one
UpdatesFor(n) ==
    {pushed.updates[i] : i \in {j \in 1..Len(pushed.updates) :
                                  j <= Len(components) /\ components[j].id = n.id}}

PushedField(n, f) == \E u \in UpdatesFor(n) : f \in u.keys

\* What node n shows after the last change: the pushed value of a field
\* when one was pushed, the component's own value otherwise
ShownAttr(n, a) ==
    IF PushedField(n, a)
    THEN LET u == CHOOSE u \in UpdatesFor(n) : a \in u.keys
         IN  IF a = "label" THEN u.label ELSE u.value
    ELSE Attr(n, a)

ShownChoices(n) ==
    IF PushedField(n, "choices")
    THEN (CHOOSE u \in UpdatesFor(n) : "choices" \in u.keys).choices
    ELSE n.choices

\* The value a choices entry selects: the value half of a tuple, the entry
\* itself otherwise
ValueHalf(e) == IF e.pair THEN e.v ELSE e.k

\* Python equality of two choices entries: a tuple never equals a str
EntryEq(a, b) ==
    /\ a.pair = b.pair
    /\ a.k.s = b.k.s
    /\ a.pair => a.v.s = b.v.s

Changed == changedTo # "" /\ pushed.status = "returned"

\* The table maps every discovered key to itself, in every language it has
IdentityTable ==
    \A l \in DOMAIN translation.table : \A k \in TranslatableValues(block) :
        k \in DOMAIN translation.table[l] /\ translation.table[l][k] = k

KnownExt == translation.kind = "path" /\ translation.ext \in {"json", "yaml"}

\* What a later scope exit loads from the path
OnDisk == IF file.exists THEN file.data ELSE EmptyTable

---------------------------------------------------------------------------
(* The claims *)

\* C1: whenever the selector has changed to a language L, every
\* translatable field other than choices of every discovered component has
\* been pushed the table's entry for its value under L, and the value
\* itself when the table has no L or no such key under L.
C1_LookupPushed ==
    changedTo # "" =>
      /\ pushed.status = "returned"
      /\ \A n \in AllNodes(block) : \A a \in TranslatableAttrs(n) :
           /\ PushedField(n, a)
           /\ ShownAttr(n, a).s = Lookup(translation.table, changedTo, Attr(n, a).s)

\* C1 witness: fr was selected, a label Hello was pushed as Bonjour and a
\* label Welcome, which fr does not map, was pushed as Welcome.
C1_Witness ==
    /\ changedTo = "fr"
    /\ "fr" \in DOMAIN translation.table
    /\ "Welcome" \notin DOMAIN translation.table["fr"]
    /\ \E n, o \in AllNodes(block) :
         /\ n.label = gettext("Hello") /\ ShownAttr(n, "label").s = "Bonjour"
         /\ o.label = gettext("Welcome") /\ ShownAttr(o, "label").s = "Welcome"
         /\ PushedField(o, "label")

C3_GapIffMissing ==
    result.op = "has_new" =>
      (result.has_new <=>
         \E l \in Range(args.langs) : \E v \in TranslatableValues(block) :
            ~(l \in DOMAIN args.existing /\ v \in DOMAIN args.existing[l]))

\* C4 (as claimed): dump_blocks returns a table whose languages are the
\* given ones and in which every translatable value of the tree is a key,
\* mapped to its existing translation or else to itself.
C4_DumpCarriesForward ==
    result.op = "dump" =>
      /\ DOMAIN result.dump = Range(args.langs)
      /\ \A l \in Range(args.langs) : \A v \in TranslatableValues(block) :
           /\ v \in DOMAIN result.dump[l]
           /\ result.dump[l][v] = Lookup(args.existing, l, v)

\* C5 (as claimed): when the selector is a discovered component whose
\* value is a Marker Value, the scope exit raises and registers no handler.
C5_SelfReferenceRejected ==
    (exits > 0 /\ \E n \in AllNodes(block) :
                    n.id = lang /\ "value" \in TranslatableAttrs(n))
      => (exitResult = "ValueError" /\ ~handlers)

\* C6 (as claimed): under a table mapping every discovered key to itself,
\* what every translatable field shows after a change, choices included,
\* equals the component's original value.
C6_IdentityRoundTrip ==
    (Changed /\ IdentityTable) =>
      \A n \in AllNodes(block) :
        /\ \A a \in TranslatableAttrs(n) : ShownAttr(n, a).s = Attr(n, a).s
        /\ n.hasChoices =>
             /\ Len(ShownChoices(n)) = Len(n.choices)
             /\ \A p \in 1..Len(n.choices) : EntryEq(ShownChoices(n)[p], n.choices[p])

\* C6 (amended): the same, except that a plain Marker Value entry v at a
\* reported position of a pushed choices is the tuple (v, v).
C6_IdentityRoundTripAmended ==
    (Changed /\ IdentityTable) =>
      \A n \in AllNodes(block) :
        /\ \A a \in TranslatableAttrs(n) : ShownAttr(n, a).s = Attr(n, a).s
        /\ n.hasChoices =>
             /\ Len(ShownChoices(n)) = Len(n.choices)
             /\ \A p \in 1..Len(n.choices) :
                  LET old == n.choices[p]
                      new == ShownChoices(n)[p]
                  IN  IF /\ ~old.pair
                         /\ p \in MarkedPositions(n.choices)
                         /\ PushedField(n, "choices")
                      THEN new.pair /\ new.k.s = old.k.s /\ new.v.s = old.k.s
                      ELSE EntryEq(new, old)

\* C6 witness: en was selected under a table mapping Hello to itself, and
\* choices [Hello, Hello*] was pushed with its marked entry as a tuple.
C6_Witness ==
    /\ Changed /\ IdentityTable
    /\ changedTo = "en"
    /\ "en" \in DOMAIN translation.table
    /\ \E n \in AllNodes(block) :
         /\ n.choices = <<Entry(Str("Hello")), Entry(gettext("Hello"))>>
         /\ PushedField(n, "choices")
         /\ ShownChoices(n)[2].pair

\* C7 (as claimed): a path whose extension is neither .json nor .yaml makes
\* the scope exit raise, and the file is not opened for writing.
C7_UnsupportedExtensionRaises ==
    (exits > 0 /\ translation.kind = "path" /\ ~KnownExt)
      => (exitResult = "ValueError" /\ ~wrote)

\* C8 (as claimed): on_load returns the first preference of the header,
\* cut at its region and lower-cased, and returns en, raising nothing, when
\* the header is absent or names nothing.
C8_InitialLanguage ==
    loaded.status # "none" =>
      /\ loaded.status = "returned"
      /\ LET first == IF request.present
                      THEN Lower(SplitFirst(SplitFirst(request.header, ","), "-"))
                      ELSE <<>>
         IN  loaded.value = IF first = <<>> THEN <<"e", "n">> ELSE first

\* C9 (as claimed): a rewritten file holds the placeholder languages and
\* no other, and under each of them the translatable values of the tree
\* and no other key.
C9_RewriteIsExact ==
    (wrote /\ KnownExt) =>
      /\ file.exists
      /\ DOMAIN file.data = Range(placeholder_langs)
      /\ \A l \in DOMAIN file.data : DOMAIN file.data[l] = TranslatableValues(block)

\* C10: once a scope exit over a .json or .yaml path with placeholder
\* languages has run, has_new_i18n_fields finds no gap between the tree and
\* what is on disk, and a further exit neither writes nor changes the file.
C10_Fixpoint ==
    [][(exits > 0 /\ KnownExt /\ placeholder_langs # <<>>)
         => /\ ~has_new_i18n_fields(block, placeholder_langs, OnDisk)
            /\ file' = file
            /\ ~wrote']_vars

\* C10 witness: a second exit has run over a .yaml file that an exit wrote
\* (only dump_blocks maps Welcome to itself under fr).
C10_Witness ==
    /\ exits = 2
    /\ translation.kind = "path" /\ translation.ext = "yaml"
    /\ file.exists
    /\ "fr" \in DOMAIN file.data
    /\ "Welcome" \in DOMAIN file.data["fr"]
    /\ file.data["fr"]["Welcome"] = "Welcome"
    /\ ~wrote

====
